---- MODULE Spec2Model ----
(***************************************************************************)
(* Model of src/store.ts: the cart, the checkout (placeOrder) and the      *)
(* seller's stock update, run by several logged-in sessions against one    *)
(* MongoDB database.  Every awaited collection call is one atomic step;    *)
(* what a function keeps between two awaits is the session's local state.  *)
(*                                                                         *)
(* A session at the menu may call addToCart, updateCartItem or placeOrder  *)
(* in any order, as the buyer menu of main allows.  The collection calls   *)
(* inside placeOrder's try block may throw (storage unavailable); the      *)
(* catch block is then what the code runs.                                 *)
(*                                                                         *)
(* Spec is buyers and seller in every interleaving, SpecBuyers the buyers  *)
(* alone, SpecSerial one call at a time.  pre, initialStock and            *)
(* stockUpdates record history for the properties; no action reads them.   *)
(***************************************************************************)
EXTENDS Integers, Sequences, FiniteSets, TLC

\* ---------------------------------------------------------------- bounds
MaxStock == 2   \* largest quantity a product is in stock with at the start
MaxCalls == 4   \* number of menu choices (calls) made by all users together

\* ------------------------------------------------------------ the database
ProductIds == {1, 2}
Buyers == {"b1", "b2"}
Sessions == {"s1", "s2"}

NoProduct == 0
NoItems == << >>

\* the products collection as addProduct left it: fixed name and price per _id
Catalog ==
    [p \in ProductIds |->
        IF p = 1 THEN [name |-> "apple", price |-> 10]
                 ELSE [name |-> "pear", price |-> 20]]

SearchNames == {"apple", "pear", "kiwi"}

VARIABLES
    products,         \* products collection: _id -> [name, price, quantity]
    cart,             \* cart collection: userId -> [exists, items]
    orders,           \* orders collection, in insertion order
    user,             \* session -> the userId it logged in as
    pc,               \* session -> where it stands in the buyer menu
    userCart,         \* session -> items of the cart document it read (local)
    idx,              \* session -> position of placeOrder's for loop (local)
    outcome,          \* session -> what the finished function printed
    pre,              \* session -> stock, cart and order count when its call began
    calls,            \* number of calls made from the menus so far
    sellerPc,         \* the seller's position in updateStock
    selectedProduct,  \* the seller's local copy of the product it selected
    stockUpdates,     \* number of stock writes the seller has performed
    initialStock      \* the quantity every product started with

vars == << products, cart, orders, user, pc, userCart, idx, outcome, pre, calls,
           sellerPc, selectedProduct, stockUpdates, initialStock >>

buyerVars == << cart, orders, user, pc, userCart, idx, outcome, pre >>
sellerVars == << sellerPc, selectedProduct, stockUpdates >>

\* ------------------------------------------------------------ helpers
NoCart == [exists |-> FALSE, items |-> NoItems]
NoOutcome == [msg |-> "", error |-> "", at |-> "", name |-> ""]
NoPre == [quantity |-> [p \in ProductIds |-> 0], cart |-> NoCart, orders |-> 0]

\* the database as a call finds it
Before(s) ==
    [quantity |-> [p \in ProductIds |-> products[p].quantity],
     cart |-> cart[user[s]],
     orders |-> Len(orders)]
NoSelection == [id |-> NoProduct, quantity |-> 0]

Said(m) == [msg |-> m, error |-> "", at |-> "", name |-> ""]
Failed(e, where, n) ==
    [msg |-> "FailedToPlaceOrder", error |-> e, at |-> where, name |-> n]

Quantity(p) == products[p].quantity

\* what a user types at a quantity prompt, character by character
DigitChars == << "0", "1", "2", "3", "4", "5", "6", "7", "8", "9" >>

Typed ==
    {<< >>, << "0" >>, << "1" >>, << "2" >>, << "0", "0" >>, << "0", "2" >>,
     << "-", "1" >>, << "-", "2" >>, << "x" >>, << "1", "." >>}

\* /^\d+$/.test(input)
IsDigits(input) ==
    /\ Len(input) > 0
    /\ \A i \in 1..Len(input) : \E d \in DOMAIN DigitChars : DigitChars[d] = input[i]

\* parseInt of a string of digits
RECURSIVE parseInt(_)
parseInt(input) ==
    IF input = << >> THEN 0
    ELSE LET last == input[Len(input)]
             digit == (CHOOSE d \in DOMAIN DigitChars : DigitChars[d] = last) - 1
         IN parseInt(SubSeq(input, 1, Len(input) - 1)) * Len(DigitChars) + digit

\* askForQuantity answers "Please enter a valid positive number." and asks again
NoQuantity == -1

\* askForQuantity taking the quantity >= 0 where the code takes quantity > 0
askForQuantityFromZero(input) ==
    IF IsDigits(input) /\ parseInt(input) >= 0 THEN parseInt(input) ELSE NoQuantity

\* one round of askForQuantity's loop: the quantity returned, or NoQuantity
\* when the input is turned down and the prompt repeated
askForQuantity(input) ==
    IF IsDigits(input) /\ parseInt(input) > 0 THEN parseInt(input) ELSE NoQuantity

\* the values askForQuantity returns: an input it turns down changes nothing
\* and leads to no call
Quantities == {askForQuantity(input) : input \in Typed} \ {NoQuantity}

\* products.findOne({ name: productName }): the first document with the name
findProduct(productName) ==
    LET found == {p \in DOMAIN products : products[p].name = productName}
    IN IF found = {} THEN NoProduct
       ELSE CHOOSE p \in found : \A q \in found : p <= q

\* the CartItem addToCart builds from the product it was given
CartItem(product, quantity) ==
    [productId |-> product,
     name |-> products[product].name,
     price |-> products[product].price,
     quantity |-> quantity]

\* $addToSet: append the value unless an equal element is already there
AddToSet(items, item) ==
    IF \E i \in 1..Len(items) : items[i] = item THEN items
    ELSE Append(items, item)

\* an update of the quantity that matches every product rather than one _id
IncQuantityOfAll(p, delta) ==
    [q \in DOMAIN products |-> [products[q] EXCEPT !.quantity = @ + delta]]

\* $inc of a product's quantity
IncQuantity(p, delta) ==
    [products EXCEPT ![p].quantity = @ + delta]

\* userCart.items.filter(item => item.name !== productName)
FilterOut(items, productName) ==
    SelectSeq(items, LAMBDA item : item.name # productName)

\* Array.prototype.findIndex, 0 for -1
FindIndex(items, productName) ==
    LET hits == {i \in 1..Len(items) : items[i].name = productName}
    IN IF hits = {} THEN 0 ELSE CHOOSE i \in hits : \A j \in hits : i <= j

\* placeOrder has read the cart and not yet returned
InCheckout(s) == pc[s] \in {"confirm", "find", "inc", "insert", "delete"}

\* an order document whose lines take the name and the price the product has at
\* the time of the checkout
OrderDocAsListed(s) ==
    [userId |-> user[s],
     items |-> [i \in 1..Len(userCart[s]) |->
                  [userCart[s][i] EXCEPT
                      !.name = products[userCart[s][i].productId].name,
                      !.price = products[userCart[s][i].productId].price]]]

\* the order document placeOrder inserts
OrderDoc(s) == [userId |-> user[s], items |-> userCart[s]]

\* placeOrder's for loop run with nothing interleaved and the storage working:
\* the lines in cart order, each checked and then decremented, the first
\* refused line ending the loop with the earlier decrements kept
RECURSIVE placeOrderAlone(_, _)
placeOrderAlone(quantity, items) ==
    IF items = << >> THEN [placed |-> TRUE, quantity |-> quantity]
    ELSE LET item == Head(items)
         IN IF \/ item.productId \notin DOMAIN quantity
               \/ quantity[item.productId] < item.quantity
            THEN [placed |-> FALSE, quantity |-> quantity]
            ELSE placeOrderAlone(
                     [quantity EXCEPT ![item.productId] = @ - item.quantity],
                     Tail(items))

\* ------------------------------------------------------------ initial state
Init ==
    /\ products \in {f \in [ProductIds -> [name : {"apple", "pear"},
                                          price : {10, 20},
                                          quantity : 1..MaxStock]] :
                        \A p \in ProductIds :
                            /\ f[p].name = Catalog[p].name
                            /\ f[p].price = Catalog[p].price}
    /\ initialStock = [p \in ProductIds |-> products[p].quantity]
    /\ cart = [b \in Buyers |-> NoCart]
    /\ orders = << >>
    /\ user \in {u \in [Sessions -> Buyers] : u["s1"] = "b1"}
    /\ pc = [s \in Sessions |-> "menu"]
    /\ userCart = [s \in Sessions |-> NoItems]
    /\ idx = [s \in Sessions |-> 0]
    /\ outcome = [s \in Sessions |-> NoOutcome]
    /\ pre = [s \in Sessions |-> NoPre]
    /\ calls = 0
    /\ sellerPc = "menu"
    /\ selectedProduct = NoSelection
    /\ stockUpdates = 0

\* ------------------------------------------------------------ buyer: cart
\* addToCart: one updateOne with $addToSet and upsert
addToCart(s, product, quantity) ==
    cart' = [cart EXCEPT ![user[s]] =
               [exists |-> TRUE,
                items |-> AddToSet(cart[user[s]].items, CartItem(product, quantity))]]

\* main case '1' with the name and the quantity the buyer typed
AddItem(s, productName, quantity) ==
    /\ pc[s] = "menu"
    /\ calls < MaxCalls
    /\ calls' = calls + 1
    /\ findProduct(productName) # NoProduct
    /\ addToCart(s, findProduct(productName), quantity)
    /\ UNCHANGED << products, orders, user, pc, userCart, idx, outcome, pre,
                    initialStock >>
    /\ UNCHANGED sellerVars

\* main case '1': search until a product is found, ask the quantity, addToCart
AddToCart(s) ==
    \E productName \in SearchNames, quantity \in Quantities :
        AddItem(s, productName, quantity)

\* updateCartItem up to its replaceOne: read the cart, change the local copy
UpdateCartItemRead(s, productName, newQuantity) ==
    /\ pc[s] = "menu"
    /\ calls < MaxCalls
    /\ calls' = calls + 1
    /\ pre' = [pre EXCEPT ![s] = Before(s)]
    /\ LET doc == cart[user[s]]
           itemIndex == FindIndex(doc.items, productName)
       IN IF ~doc.exists
          THEN /\ outcome' = [outcome EXCEPT ![s] = Said("CartNotFound")]
               /\ pc' = [pc EXCEPT ![s] = "done"]
               /\ UNCHANGED userCart
          ELSE IF newQuantity <= 0
          THEN /\ userCart' = [userCart EXCEPT ![s] =
                     FilterOut(doc.items, productName)]
               /\ outcome' = [outcome EXCEPT ![s] = Said("RemovedFromCart")]
               /\ pc' = [pc EXCEPT ![s] = "replace"]
          ELSE IF itemIndex # 0
          THEN /\ userCart' = [userCart EXCEPT ![s] =
                     [doc.items EXCEPT ![itemIndex].quantity = newQuantity]]
               /\ outcome' = [outcome EXCEPT ![s] = Said("QuantityUpdated")]
               /\ pc' = [pc EXCEPT ![s] = "replace"]
          ELSE /\ outcome' = [outcome EXCEPT ![s] = Said("NotFoundInCart")]
               /\ pc' = [pc EXCEPT ![s] = "done"]
               /\ UNCHANGED userCart
    /\ UNCHANGED << products, cart, orders, user, idx, initialStock >>
    /\ UNCHANGED sellerVars

\* main case '2': the product name typed, the quantity from askForQuantity
UpdateCartItem(s) ==
    \E productName \in SearchNames, newQuantity \in Quantities :
        UpdateCartItemRead(s, productName, newQuantity)

\* cart.replaceOne({ userId }, userCart): no upsert, so a deleted cart stays deleted
ReplaceCart(s) ==
    /\ pc[s] = "replace"
    /\ cart' = IF cart[user[s]].exists
               THEN [cart EXCEPT ![user[s]].items = userCart[s]]
               ELSE cart
    /\ pc' = [pc EXCEPT ![s] = "done"]
    /\ userCart' = [userCart EXCEPT ![s] = NoItems]
    /\ UNCHANGED << products, orders, user, calls, idx, outcome, pre, initialStock >>
    /\ UNCHANGED sellerVars

\* ------------------------------------------------------------ buyer: checkout
\* placeOrder with the test "!userCart" alone, the items.length === 0 half of
\* the test left out
PlaceOrderReadAnyCart(s) ==
    /\ pc[s] = "menu"
    /\ calls < MaxCalls
    /\ calls' = calls + 1
    /\ pre' = [pre EXCEPT ![s] = Before(s)]
    /\ LET doc == cart[user[s]]
       IN IF ~doc.exists
          THEN /\ outcome' = [outcome EXCEPT ![s] = Said("CartEmpty")]
               /\ pc' = [pc EXCEPT ![s] = "done"]
               /\ UNCHANGED userCart
          ELSE /\ userCart' = [userCart EXCEPT ![s] = doc.items]
               /\ pc' = [pc EXCEPT ![s] = "confirm"]
               /\ UNCHANGED outcome
    /\ UNCHANGED << products, cart, orders, user, idx, initialStock >>
    /\ UNCHANGED sellerVars

\* placeOrder, cart.findOne and the empty-cart return
PlaceOrderRead(s) ==
    /\ pc[s] = "menu"
    /\ calls < MaxCalls
    /\ calls' = calls + 1
    /\ pre' = [pre EXCEPT ![s] = Before(s)]
    /\ LET doc == cart[user[s]]
       IN IF ~doc.exists \/ Len(doc.items) = 0
          THEN /\ outcome' = [outcome EXCEPT ![s] = Said("CartEmpty")]
               /\ pc' = [pc EXCEPT ![s] = "done"]
               /\ UNCHANGED userCart
          ELSE /\ userCart' = [userCart EXCEPT ![s] = doc.items]
               /\ pc' = [pc EXCEPT ![s] = "confirm"]
               /\ UNCHANGED outcome
    /\ UNCHANGED << products, cart, orders, user, idx, initialStock >>
    /\ UNCHANGED sellerVars

\* a confirmation prompt that empties the cart when the answer is not yes
ConfirmOrderClearingCart(s) ==
    /\ pc[s] = "confirm"
    /\ \E confirmOrder \in {"yes", "no"} :
        IF confirmOrder # "yes"
        THEN /\ outcome' = [outcome EXCEPT ![s] = Said("OrderCancelled")]
             /\ pc' = [pc EXCEPT ![s] = "done"]
             /\ userCart' = [userCart EXCEPT ![s] = NoItems]
             /\ cart' = [cart EXCEPT ![user[s]] = NoCart]
             /\ UNCHANGED idx
        ELSE /\ pc' = [pc EXCEPT ![s] = "find"]
             /\ idx' = [idx EXCEPT ![s] = 1]
             /\ UNCHANGED << outcome, userCart, cart >>
    /\ UNCHANGED << products, orders, user, calls, pre, initialStock >>
    /\ UNCHANGED sellerVars

\* the address prompts and "Confirm order? (yes/no)"
ConfirmOrder(s) ==
    /\ pc[s] = "confirm"
    /\ \E confirmOrder \in {"yes", "no"} :
        IF confirmOrder # "yes"
        THEN /\ outcome' = [outcome EXCEPT ![s] = Said("OrderCancelled")]
             /\ pc' = [pc EXCEPT ![s] = "done"]
             /\ userCart' = [userCart EXCEPT ![s] = NoItems]
             /\ UNCHANGED idx
        ELSE /\ pc' = [pc EXCEPT ![s] = "find"]
             /\ idx' = [idx EXCEPT ![s] = 1]
             /\ UNCHANGED << outcome, userCart >>
    /\ UNCHANGED << products, cart, orders, user, calls, pre, initialStock >>
    /\ UNCHANGED sellerVars

\* leaving the try block through catch: the message is printed, nothing undone
Catch(s, e, n) ==
    /\ outcome' = [outcome EXCEPT ![s] = Failed(e, pc[s], n)]
    /\ pc' = [pc EXCEPT ![s] = "done"]
    /\ userCart' = [userCart EXCEPT ![s] = NoItems]
    /\ idx' = [idx EXCEPT ![s] = 0]

\* products.findOne({ _id: item.productId }) and the two checks of the loop body
FindStock(s) ==
    /\ pc[s] = "find"
    /\ LET item == userCart[s][idx[s]]
       IN \E ok \in BOOLEAN :
           IF ~ok THEN Catch(s, "StorageError", item.name)
           ELSE IF item.productId \notin DOMAIN products
           THEN Catch(s, "ProductNotFound", item.name)
           ELSE IF Quantity(item.productId) < item.quantity
           THEN Catch(s, "InsufficientStock", item.name)
           ELSE /\ pc' = [pc EXCEPT ![s] = "inc"]
                /\ UNCHANGED << outcome, userCart, idx >>
    /\ UNCHANGED << products, cart, orders, user, calls, pre, initialStock >>
    /\ UNCHANGED sellerVars

\* products.updateOne({ _id }, { $inc: { quantity: -item.quantity } })
DecrementStock(s) ==
    /\ pc[s] = "inc"
    /\ LET item == userCart[s][idx[s]]
       IN \E ok \in BOOLEAN :
           IF ~ok
           THEN /\ Catch(s, "StorageError", item.name)
                /\ UNCHANGED products
           ELSE /\ products' = IncQuantity(item.productId, -item.quantity)
                /\ idx' = [idx EXCEPT ![s] = @ + 1]
                /\ pc' = [pc EXCEPT ![s] =
                            IF idx[s] < Len(userCart[s]) THEN "find" ELSE "insert"]
                /\ UNCHANGED << outcome, userCart >>
    /\ UNCHANGED << cart, orders, user, calls, pre, initialStock >>
    /\ UNCHANGED sellerVars

\* the insert written so that the document is stored and the call still throws
InsertOrderThenThrow(s) ==
    /\ pc[s] = "insert"
    /\ orders' = Append(orders, OrderDoc(s))
    /\ Catch(s, "StorageError", "")
    /\ UNCHANGED << products, cart, user, calls, pre, initialStock >>
    /\ UNCHANGED sellerVars

\* orders.insertOne({ userId, items: userCart.items, ... })
InsertOrder(s) ==
    /\ pc[s] = "insert"
    /\ \E ok \in BOOLEAN :
        IF ~ok
        THEN /\ Catch(s, "StorageError", "")
             /\ UNCHANGED orders
        ELSE /\ orders' = Append(orders, OrderDoc(s))
             /\ pc' = [pc EXCEPT ![s] = "delete"]
             /\ UNCHANGED << outcome, userCart, idx >>
    /\ UNCHANGED << products, cart, user, calls, pre, initialStock >>
    /\ UNCHANGED sellerVars

\* cart.deleteOne({ userId }) and "Order placed successfully!"
DeleteCart(s) ==
    /\ pc[s] = "delete"
    /\ \E ok \in BOOLEAN :
        IF ~ok
        THEN /\ Catch(s, "StorageError", "")
             /\ UNCHANGED cart
        ELSE /\ cart' = [cart EXCEPT ![user[s]] = NoCart]
             /\ outcome' = [outcome EXCEPT ![s] = Said("OrderPlaced")]
             /\ pc' = [pc EXCEPT ![s] = "done"]
             /\ userCart' = [userCart EXCEPT ![s] = NoItems]
             /\ idx' = [idx EXCEPT ![s] = 0]
    /\ UNCHANGED << products, orders, user, calls, pre, initialStock >>
    /\ UNCHANGED sellerVars

\* the function has returned: back to the buyer menu
BackToMenu(s) ==
    /\ pc[s] = "done"
    /\ pc' = [pc EXCEPT ![s] = "menu"]
    /\ outcome' = [outcome EXCEPT ![s] = NoOutcome]
    /\ pre' = [pre EXCEPT ![s] = NoPre]
    /\ UNCHANGED << products, cart, orders, user, calls, userCart, idx, initialStock >>
    /\ UNCHANGED sellerVars

\* ------------------------------------------------------------ seller
\* updateStock up to the product choice: the list is read, one entry selected
SelectProduct ==
    /\ sellerPc = "menu"
    /\ calls < MaxCalls
    /\ calls' = calls + 1
    /\ \E p \in DOMAIN products :
        selectedProduct' = [id |-> p, quantity |-> Quantity(p)]
    /\ sellerPc' = "update"
    /\ UNCHANGED << products, stockUpdates, initialStock >>
    /\ UNCHANGED buyerVars

\* the action and quantity prompts, the negative-stock guard and the $inc
UpdateStock ==
    /\ sellerPc = "update"
    /\ \E action \in {"increase", "decrease"}, quantityChange \in Quantities :
        LET updateQuantity ==
                IF action = "increase" THEN quantityChange ELSE -quantityChange
        IN IF selectedProduct.quantity + updateQuantity < 0
           THEN UNCHANGED << products, stockUpdates >>
           ELSE /\ products' = IncQuantity(selectedProduct.id, updateQuantity)
                /\ stockUpdates' = stockUpdates + 1
    /\ sellerPc' = "menu"
    /\ selectedProduct' = NoSelection
    /\ UNCHANGED << calls, initialStock >>
    /\ UNCHANGED buyerVars

\* ------------------------------------------------------------ specification
BuyerStep(s) ==
    \/ AddToCart(s)
    \/ UpdateCartItem(s)
    \/ ReplaceCart(s)
    \/ PlaceOrderRead(s)
    \/ ConfirmOrder(s)
    \/ FindStock(s)
    \/ DecrementStock(s)
    \/ InsertOrder(s)
    \/ DeleteCart(s)
    \/ BackToMenu(s)

SellerStep == SelectProduct \/ UpdateStock

Next == (\E s \in Sessions : BuyerStep(s)) \/ SellerStep

\* buyers and seller, every interleaving of their steps
Spec == Init /\ [][Next]_vars

\* the buyers alone
BuyersNext == \E s \in Sessions : BuyerStep(s)

SpecBuyers == Init /\ [][BuyersNext]_vars

\* one call at a time: a user starts a call only when nobody is inside one
Quiet(s) == sellerPc = "menu" /\ \A t \in Sessions \ {s} : pc[t] = "menu"

SerialNext ==
    \/ \E s \in Sessions : Quiet(s) /\ BuyerStep(s)
    \/ (\A t \in Sessions : pc[t] = "menu") /\ SellerStep

SpecSerial == Init /\ [][SerialNext]_vars

\* the steps of placeOrder after its cart read: the answer at the prompt and
\* the awaited store calls, each of which settles
CheckoutStep(s) ==
    \/ ConfirmOrder(s)
    \/ FindStock(s)
    \/ DecrementStock(s)
    \/ InsertOrder(s)
    \/ DeleteCart(s)

\* two different buyers who add to their carts and check out, every prompt
\* answered and every awaited call settling
ShoppingNext ==
    \E s \in Sessions :
        \/ AddToCart(s)
        \/ PlaceOrderRead(s)
        \/ CheckoutStep(s)
        \/ BackToMenu(s)

\* the sessions logged in as different buyers
ShoppingInit == Init /\ \A s, t \in Sessions : s # t => user[s] # user[t]

SpecShoppingFair ==
    /\ ShoppingInit
    /\ [][ShoppingNext]_vars
    /\ \A s \in Sessions : WF_vars(CheckoutStep(s))

\* the price of a product edited in the products collection from outside the
\* program, which itself never rewrites a price or a name
Prices == {Catalog[p].price : p \in ProductIds}

ChangePrice ==
    /\ calls < MaxCalls
    /\ calls' = calls + 1
    /\ \E p \in ProductIds : \E price \in Prices \ {products[p].price} :
          products' = [products EXCEPT ![p].price = price]
    /\ UNCHANGED initialStock
    /\ UNCHANGED buyerVars
    /\ UNCHANGED sellerVars

\* one call at a time, the price changes falling between the calls
RepricedNext ==
    \/ \E s \in Sessions : Quiet(s) /\ BuyerStep(s)
    \/ (\A t \in Sessions : pc[t] = "menu") /\ ChangePrice

SpecRepriced == Init /\ [][RepricedNext]_vars

\* the functions called directly rather than through main's prompts:
\* updateCartItem then also gets the newQuantity 0 that its "<= 0" branch
\* is written for and that askForQuantity never returns
NewQuantities == {0} \cup Quantities

UpdateCartItemCall(s) ==
    \E productName \in SearchNames, newQuantity \in NewQuantities :
        UpdateCartItemRead(s, productName, newQuantity)

\* one call at a time
SerialCallsNext ==
    \/ \E s \in Sessions : Quiet(s) /\ BuyerStep(s)
    \/ \E s \in Sessions : Quiet(s) /\ UpdateCartItemCall(s)

SpecSerialCalls == Init /\ [][SerialCallsNext]_vars

\* ------------------------------------------------------------ properties
Min(a, b) == IF a <= b THEN a ELSE b
Max(a, b) == IF a >= b THEN a ELSE b

\* the lines of a cart or an order that refer to product p
Lines(items, p) == {i \in 1..Len(items) : items[i].productId = p}

\* the quantity of product p over all lines of a cart or an order
RECURSIVE LineQuantity(_, _)
LineQuantity(items, p) ==
    IF items = << >> THEN 0
    ELSE (IF Head(items).productId = p THEN Head(items).quantity ELSE 0)
         + LineQuantity(Tail(items), p)

\* the quantity of product p over all orders of a ledger
RECURSIVE OrderedQuantity(_, _)
OrderedQuantity(ledger, p) ==
    IF ledger = << >> THEN 0
    ELSE LineQuantity(Head(ledger).items, p) + OrderedQuantity(Tail(ledger), p)

\* a line of the cart that the stock of the time cannot satisfy
Unsatisfiable(items, quantity) ==
    \E i \in 1..Len(items) :
        \/ items[i].productId \notin ProductIds
        \/ quantity[items[i].productId] < items[i].quantity

\* placeOrder has returned after the buyer confirmed
Confirmed(s) ==
    pc[s] = "done" /\ outcome[s].msg \in {"OrderPlaced", "FailedToPlaceOrder"}

StorageFailed(s) == outcome[s].error = "StorageError"

StockAsBefore(s) == \A p \in ProductIds : Quantity(p) = pre[s].quantity[p]

StockDecremented(s) ==
    \A p \in ProductIds :
        Quantity(p) = pre[s].quantity[p] - LineQuantity(pre[s].cart.items, p)

OrderAppended(s) ==
    /\ Len(orders) = pre[s].orders + 1
    /\ orders[Len(orders)] = [userId |-> user[s], items |-> pre[s].cart.items]

\* every session is logged in as a different buyer
DistinctBuyers == \A s, t \in Sessions : s # t => user[s] # user[t]

\* C1: under every interleaving of the placeOrder calls of different buyers,
\* no product's stock quantity is ever below zero.
NoOverselling == DistinctBuyers => \A p \in ProductIds : Quantity(p) >= 0

\* C2: a confirmed placeOrder on a cart with a line that cannot be satisfied
\* fails and leaves the stock, the buyer's cart and the orders as they were
\* before the call (for a cart of one line per product, the storage working).
FailedCheckoutChangesNothing ==
    \A s \in Sessions :
        ( /\ Confirmed(s)
          /\ ~StorageFailed(s)
          /\ \A p \in ProductIds : Cardinality(Lines(pre[s].cart.items, p)) <= 1
          /\ Unsatisfiable(pre[s].cart.items, pre[s].quantity) ) =>
            /\ outcome[s].msg = "FailedToPlaceOrder"
            /\ StockAsBefore(s)
            /\ cart[user[s]] = pre[s].cart
            /\ Len(orders) = pre[s].orders

\* C3: when every session is a different buyer whose cart is one line of
\* quantity 1 for the same product p, and all their placeOrder calls have
\* returned, exactly min(N, S) of them placed an order and p's stock is
\* max(0, S - N), for N buyers and initial stock S.
SingleUnitDemands ==
    \A p \in ProductIds :
        LET N == Cardinality(Sessions)
            S == initialStock[p]
            placed == {s \in Sessions : outcome[s].msg = "OrderPlaced"}
        IN ( /\ \A s \in Sessions :
                    /\ Confirmed(s)
                    /\ ~StorageFailed(s)
                    /\ pre[s].cart.items = << CartItem(p, 1) >>
             /\ DistinctBuyers
             /\ calls = 2 * N
             /\ stockUpdates = 0 )
           => /\ Cardinality(placed) = Min(N, S)
              /\ Quantity(p) = Max(0, S - N)

\* C4: while no checkout is in progress and the seller has adjusted no stock,
\* what has been removed from a product's stock equals the quantity of that
\* product over all committed orders.
StockConservation ==
    ((\A s \in Sessions : ~InCheckout(s)) /\ stockUpdates = 0) =>
        \A p \in ProductIds :
            initialStock[p] - Quantity(p) = OrderedQuantity(orders, p)

\* C5: with no other call interleaved, a confirmed placeOrder on a non-empty
\* cart whose every line has an existing product with stock >= the line's
\* quantity decrements each product by its line quantity, appends one order
\* with the cart's lines and leaves the cart empty.
SatisfiableCheckoutSucceeds ==
    \A s \in Sessions :
        ( /\ Confirmed(s)
          /\ ~StorageFailed(s)
          /\ pre[s].cart.items # << >>
          /\ ~Unsatisfiable(pre[s].cart.items, pre[s].quantity) )
        => /\ outcome[s].msg = "OrderPlaced"
           /\ StockDecremented(s)
           /\ OrderAppended(s)
           /\ cart[user[s]].items = << >>

\* C6: adding quantity q of a product whose line is already in the cart with
\* quantity q1 leaves exactly one line for the product, of quantity q1 + q.
AddItemMerges ==
    [][\A s \in Sessions, productName \in SearchNames, q \in Quantities :
          LET p == findProduct(productName)
              old == cart[user[s]].items
              new == cart'[user[s]].items
          IN (AddItem(s, productName, q) /\ Cardinality(Lines(old, p)) = 1) =>
                /\ Cardinality(Lines(new, p)) = 1
                /\ \A i \in Lines(new, p) :
                       new[i].quantity = LineQuantity(old, p) + q]_vars

\* C7: every cart holds at most one line per product id.
OneLinePerProduct ==
    \A b \in Buyers : \A p \in ProductIds :
        Cardinality(Lines(cart[b].items, p)) <= 1

\* C8: when the order insert fails after the stock was decremented, the stock
\* is restored, no order is written and the cart is intact: the state equals
\* the state before the call.
InsertFailureRestoresStock ==
    \A s \in Sessions :
        (pc[s] = "done" /\ outcome[s].msg = "FailedToPlaceOrder"
                        /\ outcome[s].at = "insert") =>
            /\ StockAsBefore(s)
            /\ Len(orders) = pre[s].orders
            /\ cart[user[s]] = pre[s].cart

\* C9: when the cart delete fails after the insert, the order stays committed,
\* the stock stays decremented, and the caller is told of a placed order with
\* a warning, not of a failure to place the order.
DeleteFailureIsWarning ==
    \A s \in Sessions :
        (pc[s] = "done" /\ outcome[s].at = "delete") =>
            /\ OrderAppended(s)
            /\ StockDecremented(s)
            /\ outcome[s].msg # "FailedToPlaceOrder"

\* the terminal states of a checkout attempt that follow the insert
Committed(o) ==
    o.msg = "OrderPlaced" \/ (o.msg = "FailedToPlaceOrder" /\ o.at = "delete")

\* C10: the orders change only by the insert of a checkout that goes on to a
\* committed end, which appends exactly one order; an attempt that ends in any
\* other terminal state never passed the insert and leaves the orders alone.
OrdersChangeOnlyOnCommit ==
    [][/\ orders' # orders =>
            \E s \in Sessions :
                /\ pc[s] = "insert" /\ pc'[s] = "delete"
                /\ orders' = Append(orders, OrderDoc(s))
       /\ \A s \in Sessions :
            /\ (pc[s] # "delete" /\ pc'[s] = "delete") =>
                    (pc[s] = "insert" /\ orders' = Append(orders, OrderDoc(s)))
            /\ pc[s] = "delete" => pc'[s] \in {"delete", "done"}
            /\ (InCheckout(s) /\ pc'[s] = "done") =>
                    /\ orders' = orders
                    /\ Committed(outcome'[s]) <=> pc[s] = "delete"
            /\ (pc[s] = "menu" /\ pc'[s] = "done") => orders' = orders]_vars

\* C10 witness: one checkout has committed its order and another has ended
\* with insufficient stock, the ledger holding the one order.
OneCommittedOneRefused ==
    \E s, t \in Sessions :
        /\ pc[s] = "done" /\ outcome[s].msg = "OrderPlaced"
        /\ pc[t] = "done" /\ outcome[t].error = "InsufficientStock"
        /\ Len(orders) = 1

\* C11: two checkouts of different buyers that began on the same stock end,
\* in every interleaving, with the outcomes and the stock of one of the two
\* serial executions of the whole checkouts.
CheckoutsSerializable ==
    \A s, t \in Sessions :
        ( /\ s # t /\ user[s] # user[t]
          /\ Confirmed(s) /\ ~StorageFailed(s)
          /\ Confirmed(t) /\ ~StorageFailed(t)
          /\ pre[s].quantity = pre[t].quantity )
        => \E o \in {<< s, t >>, << t, s >>} :
              LET first == placeOrderAlone(pre[o[1]].quantity, pre[o[1]].cart.items)
                  second == placeOrderAlone(first.quantity, pre[o[2]].cart.items)
              IN /\ (outcome[o[1]].msg = "OrderPlaced") = first.placed
                 /\ (outcome[o[2]].msg = "OrderPlaced") = second.placed
                 /\ \A p \in ProductIds : Quantity(p) = second.quantity[p]

\* C12: placeOrder called for a buyer whose cart is missing or has no lines
\* answers "Your cart is empty." and ends there, with the stock, the orders
\* and every cart as they were.
EmptyCartRefused ==
    [][\A s \in Sessions :
          ( /\ PlaceOrderRead(s)
            /\ (~cart[user[s]].exists \/ cart[user[s]].items = NoItems) )
          => /\ outcome'[s].msg = "CartEmpty"
             /\ pc'[s] = "done"
             /\ UNCHANGED << products, orders, cart >>]_vars

\* placeOrder has refused a cart document that exists with no lines left
EmptyCartReported ==
    \E s \in Sessions :
        /\ pc[s] = "done"
        /\ outcome[s].msg = "CartEmpty"
        /\ pre[s].cart.exists
        /\ pre[s].cart.items = NoItems

\* the product, name and price of a line, and those of a list of lines
Snapshot(item) ==
    [productId |-> item.productId, name |-> item.name, price |-> item.price]

Snapshots(items) == {Snapshot(items[i]) : i \in 1..Len(items)}

\* the name and price every product is listed with now
Listed ==
    {[productId |-> p, name |-> products[p].name, price |-> products[p].price] :
        p \in ProductIds}

\* the lines in the copies of buyer b's cart that calls in progress hold
Copied(b) ==
    UNION {Snapshots(userCart[s]) : s \in {t \in Sessions : user[t] = b}}

UpdateSetsQuantity ==
    [][\A s \in Sessions :
          /\ \A productName \in SearchNames, newQuantity \in NewQuantities :
                ( /\ UpdateCartItemRead(s, productName, newQuantity)
                  /\ pc'[s] = "replace" )
                => /\ LineQuantity(userCart'[s], findProduct(productName))
                          = newQuantity
                   /\ newQuantity = 0 => FindIndex(userCart'[s], productName) = 0
                   /\ FilterOut(userCart'[s], productName)
                          = FilterOut(cart[user[s]].items, productName)
          /\ ReplaceCart(s) /\ cart[user[s]].exists
                => cart'[user[s]].items = userCart[s]]_vars

\* C15: updateCartItem for a product name that no line of the buyer's cart
\* carries ends with a "not found" message and without a write, whatever the
\* newQuantity, 0 included.
UpdateOfMissingLineFails ==
    [][\A s \in Sessions :
          \A productName \in SearchNames, newQuantity \in NewQuantities :
              ( /\ UpdateCartItemRead(s, productName, newQuantity)
                /\ FindIndex(cart[user[s]].items, productName) = 0 )
              => /\ outcome'[s].msg \in {"NotFoundInCart", "CartNotFound"}
                 /\ pc'[s] = "done"
                 /\ cart' = cart]_vars

\* the number a typed input stands for, with its sign
TypedValue(input) ==
    IF Len(input) > 1 /\ Head(input) = "-" THEN 0 - parseInt(Tail(input))
    ELSE parseInt(input)

\* the typed inputs that are whole numbers
TypedNumbers ==
    {input \in Typed :
        \/ IsDigits(input)
        \/ Len(input) > 1 /\ Head(input) = "-" /\ IsDigits(Tail(input))}

\* askForQuantity turns down every typed number that is not positive
NonPositiveTurnedDown ==
    \A input \in TypedNumbers :
        TypedValue(input) <= 0 => askForQuantity(input) = NoQuantity

\* C16: a quantity typed as a number that is not positive is turned down by
\* askForQuantity, so that no add is made with it, and no cart ever holds a
\* line with a quantity of 0 or less.
CartQuantitiesPositive ==
    /\ NonPositiveTurnedDown
    /\ \A b \in Buyers : \A i \in 1..Len(cart[b].items) :
          cart[b].items[i].quantity > 0

\* a cart holds a line as added and a line whose quantity an update has set
LinesAddedAndUpdated ==
    \E s \in Sessions :
        /\ pc[s] = "done"
        /\ outcome[s].msg = "QuantityUpdated"
        /\ Len(cart[user[s]].items) > 1
        /\ cart[user[s]].items # pre[s].cart.items

\* C17: a checkout given any answer but yes at "Confirm order?" ends there as
\* cancelled, and neither its read of the cart nor its end changes the stock,
\* the orders or a cart.
CancelChangesNothing ==
    [][\A s \in Sessions :
          /\ PlaceOrderRead(s) => UNCHANGED << products, orders, cart >>
          /\ ConfirmOrder(s) /\ pc'[s] # "find"
                => /\ outcome'[s].msg = "OrderCancelled"
                   /\ pc'[s] = "done"
                   /\ UNCHANGED << products, orders, cart >>]_vars

\* a checkout was cancelled and the buyer's cart still holds the lines it read
CancelledWithCart ==
    \E s \in Sessions :
        /\ pc[s] = "done"
        /\ outcome[s].msg = "OrderCancelled"
        /\ cart[user[s]].items # NoItems
        /\ cart[user[s]] = pre[s].cart

\* the products whose line in the cart asks for more than the stock has
Short(items, quantity) ==
    {p \in ProductIds :
        \E i \in Lines(items, p) : quantity[p] < items[i].quantity}

\* C18: a checkout of a cart with one line per product, several of which the
\* stock cannot satisfy, names in its failure the product with the smallest
\* id among them, in whatever order the lines were added.
ReportsSmallestShortProduct ==
    \A s \in Sessions :
        LET short == Short(pre[s].cart.items, pre[s].quantity)
        IN ( /\ Confirmed(s)
             /\ ~StorageFailed(s)
             /\ \A p \in ProductIds : Cardinality(Lines(pre[s].cart.items, p)) <= 1
             /\ Cardinality(short) > 1 )
           => /\ outcome[s].error = "InsufficientStock"
              /\ outcome[s].name
                    = products[CHOOSE p \in short : \A q \in short : p <= q].name

\* C19: of two checkouts that the same buyer started on the same cart, each
\* having read it before the other inserted its order, at most one commits
\* an order, and the stock goes down by the cart's quantities at most once
\* (the storage working, the stock each of them found covering the cart).
OneCheckoutPerCart ==
    \A s, t \in Sessions :
        ( /\ s # t /\ user[s] = user[t]
          /\ Confirmed(s) /\ ~StorageFailed(s)
          /\ Confirmed(t) /\ ~StorageFailed(t)
          /\ pre[s].cart = pre[t].cart
          /\ pre[s].orders = pre[t].orders
          /\ \A p \in ProductIds :
                LineQuantity(pre[s].cart.items, p)
                    <= Min(pre[s].quantity[p], pre[t].quantity[p]) )
        => /\ Len(orders) <= pre[s].orders + 1
           /\ \A p \in ProductIds :
                 Quantity(p) >= Max(pre[s].quantity[p], pre[t].quantity[p])
                                  - LineQuantity(pre[s].cart.items, p)

\* C20: the delete that ends a checkout takes no line out of the buyer's cart
\* that the checkout did not read and order: a line added since the read is
\* still in the cart after it.
AddedLinesSurviveCheckout ==
    [][\A s \in Sessions :
          DeleteCart(s) /\ outcome'[s].msg = "OrderPlaced"
          => \A i \in 1..Len(cart[user[s]].items) :
                LET item == cart[user[s]].items[i]
                IN \/ \E j \in 1..Len(userCart[s]) : userCart[s][j] = item
                   \/ \E j \in 1..Len(cart'[user[s]].items) :
                         cart'[user[s]].items[j] = item]_vars

\* C21: the write of a seller's stock update never takes a product's stock
\* from 0 or more to below 0, whatever checkouts decremented the product
\* since the seller's product list was read.
StockUpdateKeepsStockNonNegative ==
    [][UpdateStock
          => \A p \in ProductIds :
                Quantity(p) >= 0 => products'[p].quantity >= 0]_vars

\* the products the lines of a cart refer to
ProductsOf(items) == {items[i].productId : i \in 1..Len(items)}

\* checkout s ended as placeOrder run alone on the stock and cart it found
\* would have: the same outcome, the same stock of its products, its order
\* appended if and only if placed, its cart deleted if placed and kept if not
AsRunAlone(s) ==
    LET items == pre[s].cart.items
        alone == placeOrderAlone(pre[s].quantity, items)
        mine == {i \in 1..Len(orders) : orders[i].userId = user[s]}
    IN /\ (outcome[s].msg = "OrderPlaced") = alone.placed
       /\ \A p \in ProductsOf(items) : Quantity(p) = alone.quantity[p]
       /\ cart[user[s]] = IF alone.placed THEN NoCart ELSE pre[s].cart
       /\ IF alone.placed
          THEN \E i \in mine :
                  /\ i > pre[s].orders
                  /\ orders[i].items = items
                  /\ \A j \in mine : j > pre[s].orders => j = i
          ELSE \A j \in mine : j <= pre[s].orders

\* two confirmed checkouts of different buyers, begun on the same stock, with
\* carts that share no product and the storage working
DisjointCheckouts(s, t) ==
    /\ s # t /\ user[s] # user[t]
    /\ Confirmed(s) /\ ~StorageFailed(s)
    /\ Confirmed(t) /\ ~StorageFailed(t)
    /\ pre[s].quantity = pre[t].quantity
    /\ ProductsOf(pre[s].cart.items) \cap ProductsOf(pre[t].cart.items) = {}

====
